---- MODULE Spec2Model ----
(***************************************************************************)
(* A model of smithy, a small Git web front end written in Go:             *)
(*   - the repository registry (Smithy.repos) with its reload and its      *)
(*     unsynchronised readers,                                             *)
(*   - the Smart HTTP bridge (info/refs, upload-pack, receive-pack) that   *)
(*     relays a git subprocess to the HTTP response,                       *)
(*   - reference listing and default-branch detection,                     *)
(*   - the first-parent diff of a commit,                                  *)
(*   - the browse views (PatchView, LogView, RepoView, RefsView,           *)
(*     TreeView) from a request to the response it leaves.                 *)
(* Strings are sequences of one-character strings, so that length,         *)
(* concatenation, comparison and formatting are computed, not assumed.     *)
(***************************************************************************)
EXTENDS Integers, Sequences, FiniteSets, TLC

VARIABLES
    alive,      \* the serving process runs (FALSE after os.Exit or a runtime fatal)
    disk,       \* the root directory: entry name -> "absent" | "repo" | "junk"
    repos,      \* Smithy.repos: [nil: is the map nil, m: name -> RepositoryWithName]
    reload,     \* per Reload request: [pc, files, i] inside LoadAllRepositories
    pre,        \* the mapping when the reload in flight began
    obs,        \* what lookups and lists returned while that reload was in flight
    overlap,    \* a second reload began while one was in flight
    req,        \* the request followed in detail: handler position, inputs, response
    sib,        \* the other requests of the process: "idle" | "running" | "done"
    refsRepo,   \* the reference iterators of the repository being listed
    refsCall,   \* the last call of ListBranches / ListTags / findMainBranch and its result
    commit,     \* the commit GetChanges is called on
    diffOut,    \* what GetChanges returned
    view        \* the last browse-view request served: handler, inputs, response

vars == <<alive, disk, repos, reload, pre, obs, overlap, req, sib,
          refsRepo, refsCall, commit, diffOut, view>>
regOnly == <<disk, reload, pre, obs, overlap>>    \* touched by the registry only
notReg == <<req, sib, refsRepo, refsCall, commit, diffOut, view>>   \* never touched by the registry

----------------------------------------------------------------------------
(* Bounds *)

NumDirs == 2        \* entries the root directory may hold
MaxReloads == 2     \* Reload requests that may be in flight together
MaxReads == 1       \* lookups/lists recorded during one reload
MaxSiblings == 1    \* other requests in flight beside the one followed in detail
MaxOut == 3         \* bytes a git subprocess writes (stdout and stderr together)
MaxBranches == 3    \* branches of a repository
MaxTags == 2        \* tags of a repository
NumPaths == 2       \* paths a tree may hold
MaxViewRefs == 1    \* references of a repository a view is asked for
MaxSpread == 2      \* history lengths tried: 0..MaxSpread and PAGE_SIZE -+ MaxSpread
MaxDepth == 3       \* elements of a tree path

----------------------------------------------------------------------------
(* Strings *)

\* The characters the model uses, in ASCII order.
Alphabet ==
    << " ", "#", "-", "/", "0", "1", "2", "3", "4", "5", "6", "7", "8", "9", "=",
       "a", "b", "c", "d", "e", "f", "g", "h", "i", "j", "k", "l", "m", "n", "o",
       "p", "q", "r", "s", "t", "u", "v", "w", "x", "y", "z" >>

Ord(c) == CHOOSE i \in 1..Len(Alphabet) : Alphabet[i] = c

\* strings.Compare: bytewise lexicographic order, -1, 0 or 1.
RECURSIVE Compare(_, _)
Compare(a, b) ==
    IF a = <<>> /\ b = <<>> THEN 0
    ELSE IF a = <<>> THEN -1
    ELSE IF b = <<>> THEN 1
    ELSE IF Ord(Head(a)) < Ord(Head(b)) THEN -1
    ELSE IF Ord(Head(a)) > Ord(Head(b)) THEN 1
    ELSE Compare(Tail(a), Tail(b))

\* strings.HasPrefix
HasPrefix(s, prefix) == Len(prefix) <= Len(s) /\ SubSeq(s, 1, Len(prefix)) = prefix

\* Less of RepositoryByName: strings.Compare(r[i].Name, r[j].Name) < 0.
RepositoryByNameLess(x, y) == Compare(x.Name, y.Name) < 0

\* sort.Sort(RepositoryByName(repos)): the elements in increasing Name order.
RECURSIVE SortRepositoryByName(_)
SortRepositoryByName(s) ==
    IF s = <<>> THEN <<>>
    ELSE LET rest == SortRepositoryByName(Tail(s))
             x == Head(s)
             k == Cardinality({i \in 1..Len(rest) : RepositoryByNameLess(rest[i], x)})
         IN  SubSeq(rest, 1, k) \o <<x>> \o SubSeq(rest, k + 1, Len(rest))

\* Some enumeration of a finite set as a sequence (Go's map iteration order
\* is unspecified; what is built from it is sorted afterwards).
RECURSIVE SetToSeq(_)
SetToSeq(S) ==
    IF S = {} THEN <<>>
    ELSE LET x == CHOOSE y \in S : TRUE IN <<x>> \o SetToSeq(S \ {x})

----------------------------------------------------------------------------
(* The repository registry *)

Root == <<"/", "r">>                                  \* Smithy.Root
AllNames == << <<"a">>, <<"b">>, <<"c">>, <<"d">> >>   \* directory names
Dirs == {AllNames[i] : i \in 1..NumDirs}
Unknown == <<"z">>                                    \* a name never on disk
Slugs == Dirs \cup {Unknown}
Reloaders == 1..MaxReloads

\* path.Join(sc.Root, f.Name()) for a plain entry name.
PathJoin(root, name) == root \o <<"/">> \o name

\* The RepositoryWithName built by LoadAllRepositories (the opened
\* *git.Repository is identified by its path).
RepositoryWithName(name) == [Name |-> name, Path |-> PathJoin(Root, name)]

ZeroRepository == [Name |-> <<>>, Path |-> <<>>]      \* Go's zero value

EmptyMap == [n \in {} |-> ZeroRepository]

\* os.ReadDir(sc.Root): the entries present, sorted by filename.
ReadDir(d) ==
    SortRepositoryByName(SetToSeq({[Name |-> n] : n \in {x \in Dirs : d[x] # "absent"}}))

\* FindRepo on a map value: (value, exists).
FindRepoIn(m, slug) ==
    IF slug \in DOMAIN m THEN [value |-> m[slug], exists |-> TRUE]
    ELSE [value |-> ZeroRepository, exists |-> FALSE]

\* GetRepositories on a map value: the handles sorted by name.
GetRepositoriesIn(m) == SortRepositoryByName(SetToSeq({m[n] : n \in DOMAIN m}))

\* sc.repos[key] = rwn (the write of LoadAllRepositories' loop).
MapPut(m, key, rwn) == [n \in DOMAIN m \cup {key} |-> IF n = key THEN rwn ELSE m[n]]

\* A request that may reload: its position, the entries os.ReadDir gave, the
\* loop index, the names git.PlainOpen opened in this call, and the handle
\* ImportProject built from its clone.
Idle == [pc |-> "idle", files |-> <<>>, i |-> 0, opened |-> {}, rwn |-> ZeroRepository]
\* Requests inside LoadAllRepositories or in Reload after it.
InFlight == {p \in Reloaders : reload[p].pc \in {"make", "loop", "respond"}}
\* Reloads that are between make(map) and the end of the population loop.
Populating == {p \in Reloaders : reload[p].pc = "loop"}

RegInit ==
    /\ alive = TRUE
    /\ disk \in [Dirs -> {"absent", "repo", "junk"}]
    /\ repos = [nil |-> TRUE, m |-> EmptyMap]         \* NewSmithy leaves repos nil
    /\ reload = [p \in Reloaders |-> Idle]
    /\ pre = EmptyMap
    /\ obs = {}
    /\ overlap = FALSE

\* An entry is created, removed or changes kind in the root directory (by
\* git clients, NewProject, ImportProject or the operator).
DiskChange ==
    /\ alive
    /\ \E d \in Dirs, k \in {"absent", "repo", "junk"} :
          /\ disk[d] # k
          /\ disk' = [disk EXCEPT ![d] = k]
    /\ UNCHANGED <<alive, repos, reload, pre, obs, overlap>>
    /\ UNCHANGED notReg

\* ImportProject, lines 92-112 (POST): git.PlainClone into Root/name makes
\* the directory a repository, and the handle is built.  A clone that fails
\* renders the error page and changes nothing.
ImportClone(p) ==
    /\ alive
    /\ reload[p].pc = "idle"
    /\ \E name \in Dirs :
          /\ disk[name] # "repo"
          /\ disk' = [disk EXCEPT ![name] = "repo"]
          /\ reload' = [reload EXCEPT ![p].pc = "add", ![p].rwn = RepositoryWithName(name)]
    /\ UNCHANGED <<alive, repos, pre, obs, overlap>>
    /\ UNCHANGED notReg

\* ImportProject, line 113: sc.AddRepository(rwn), that is
\* sc.repos[rwn.Name] = rwn on the map the readers use.  On a nil map the
\* assignment panics and net/http ends the request; beside a populating
\* reload it is a concurrent map write.  Reload (line 114) follows.
ImportAdd(p) ==
    /\ alive
    /\ reload[p].pc = "add"
    /\ \/ /\ repos.nil
          /\ reload' = [reload EXCEPT ![p] = Idle]
          /\ UNCHANGED <<alive, repos>>
       \/ /\ ~repos.nil
          /\ repos' = [repos EXCEPT !.m = MapPut(repos.m, reload[p].rwn.Name, reload[p].rwn)]
          /\ reload' = [reload EXCEPT ![p].pc = "scan", ![p].rwn = ZeroRepository]
          /\ UNCHANGED alive
       \/ /\ ~repos.nil
          /\ Populating # {}
          /\ alive' = FALSE
          /\ UNCHANGED <<repos, reload>>
    /\ UNCHANGED <<disk, pre, obs, overlap>>
    /\ UNCHANGED notReg

\* As ReloadReadDir, had the new map been made before the directory is read.
ReloadReadDirMakeFirst(p) ==
    /\ alive
    /\ reload[p].pc \in {"idle", "scan"}
    /\ \/ /\ reload' = [reload EXCEPT ![p] = [Idle EXCEPT !.pc = "respond"]]
          /\ repos' = [nil |-> FALSE, m |-> EmptyMap]
       \/ /\ reload' = [reload EXCEPT ![p] = [Idle EXCEPT !.pc = "make", !.files = ReadDir(disk)]]
          /\ UNCHANGED repos
    /\ IF InFlight = {}
       THEN pre' = repos.m /\ obs' = {} /\ overlap' = FALSE
       ELSE overlap' = TRUE /\ UNCHANGED <<pre, obs>>
    /\ UNCHANGED <<alive, disk>>
    /\ UNCHANGED notReg

\* Reload -> LoadAllRepositories, line 56-59: os.ReadDir, and on an error
\* the early return.
ReloadReadDir(p) ==
    /\ alive
    /\ reload[p].pc \in {"idle", "scan"}
    /\ \/ /\ reload' = [reload EXCEPT ![p] = [Idle EXCEPT !.pc = "respond"]]
       \/ /\ reload' = [reload EXCEPT ![p] = [Idle EXCEPT !.pc = "make", !.files = ReadDir(disk)]]
    /\ IF InFlight = {}
       THEN pre' = repos.m /\ obs' = {} /\ overlap' = FALSE
       ELSE overlap' = TRUE /\ UNCHANGED <<pre, obs>>
    /\ UNCHANGED <<alive, disk, repos>>
    /\ UNCHANGED notReg

\* line 60: sc.repos = make(map[string]RepositoryWithName)
ReloadMake(p) ==
    /\ alive
    /\ reload[p].pc = "make"
    /\ repos' = [nil |-> FALSE, m |-> EmptyMap]
    /\ reload' = [reload EXCEPT ![p].pc = "loop", ![p].i = 1]
    /\ UNCHANGED <<alive, disk, pre, obs, overlap>>
    /\ UNCHANGED notReg

\* lines 61-74, one iteration: git.PlainOpen, skip on error, else
\* sc.repos[key] = rwn, written to whatever map sc.repos names now.  Two
\* goroutines writing one map at once is a data race that the Go runtime may
\* answer with "fatal error: concurrent map writes".
ReloadOpen(p) ==
    /\ alive
    /\ reload[p].pc = "loop"
    /\ reload[p].i <= Len(reload[p].files)
    /\ LET f == reload[p].files[reload[p].i].Name IN
       \/ /\ disk[f] # "repo"
          /\ UNCHANGED <<alive, repos>>
       \/ /\ disk[f] = "repo"
          /\ repos' = [repos EXCEPT !.m = MapPut(repos.m, f, RepositoryWithName(f))]
          /\ UNCHANGED alive
       \/ /\ disk[f] = "repo"
          /\ Populating \ {p} # {}
          /\ alive' = FALSE
          /\ UNCHANGED repos
    /\ reload' = [reload EXCEPT ![p].i = @ + 1,
                                ![p].opened = IF disk[reload[p].files[reload[p].i].Name] = "repo"
                                              THEN @ \cup {reload[p].files[reload[p].i].Name}
                                              ELSE @]
    /\ UNCHANGED <<disk, pre, obs, overlap>>
    /\ UNCHANGED notReg

\* line 75: the loop is over, LoadAllRepositories returns.
ReloadReturn(p) ==
    /\ alive
    /\ reload[p].pc = "loop"
    /\ reload[p].i > Len(reload[p].files)
    /\ reload' = [reload EXCEPT ![p].pc = "respond"]
    /\ UNCHANGED <<alive, disk, repos, pre, obs, overlap>>
    /\ UNCHANGED notReg

\* Reload, line 58: fmt.Fprintf(w, "done"), whatever LoadAllRepositories returned.
ReloadRespond(p) ==
    /\ alive
    /\ reload[p].pc = "respond"
    /\ reload' = [reload EXCEPT ![p] = Idle]
    /\ UNCHANGED <<alive, disk, repos, pre, obs, overlap>>
    /\ UNCHANGED notReg

\* A read recorded while a reload is in flight.
Observe(o) ==
    IF InFlight # {} /\ (o \in obs \/ Cardinality(obs) < MaxReads)
    THEN obs' = obs \cup {o}
    ELSE UNCHANGED obs

\* FindRepo(slug), from any request handler; no lock is taken.  Reading the
\* map while a reload writes it is a data race that the Go runtime may answer
\* with "fatal error: concurrent map read and map write".
FindRepo(slug) ==
    /\ alive
    /\ \/ /\ Observe([op |-> "FindRepo", slug |-> slug, out |-> FindRepoIn(repos.m, slug)])
          /\ UNCHANGED alive
       \/ /\ Populating # {}
          /\ alive' = FALSE
          /\ UNCHANGED obs
    /\ UNCHANGED <<disk, repos, reload, pre, overlap>>
    /\ UNCHANGED notReg

\* GetRepositories, from IndexView; no lock is taken.
GetRepositories ==
    /\ alive
    /\ \/ /\ Observe([op |-> "GetRepositories", slug |-> <<>>,
                      out |-> GetRepositoriesIn(repos.m)])
          /\ UNCHANGED alive
       \/ /\ Populating # {}
          /\ alive' = FALSE
          /\ UNCHANGED obs
    /\ UNCHANGED <<disk, repos, reload, pre, overlap>>
    /\ UNCHANGED notReg

RegNext ==
    \/ DiskChange
    \/ \E p \in Reloaders :
          ReloadReadDir(p) \/ ReloadMake(p) \/ ReloadOpen(p) \/ ReloadReturn(p)
             \/ ReloadRespond(p) \/ ImportClone(p) \/ ImportAdd(p)
    \/ \E slug \in Slugs : FindRepo(slug)
    \/ GetRepositories

----------------------------------------------------------------------------
(* The Smart HTTP bridge *)

Siblings == 1..MaxSiblings
Known == AllNames[1]                  \* a repository the registry holds
BridgeSlugs == {Known, Unknown}

offset == 5                           \* smithy.go:31

NL == "\n"
GitDash == <<"g", "i", "t", "-">>
UploadPack == <<"u", "p", "l", "o", "a", "d", "-", "p", "a", "c", "k">>
ReceivePack == <<"r", "e", "c", "e", "i", "v", "e", "-", "p", "a", "c", "k">>
StatelessRpc == <<"-", "-", "s", "t", "a", "t", "e", "l", "e", "s", "s", "-", "r", "p", "c">>
AdvertiseRefs ==
    <<"-", "-", "a", "d", "v", "e", "r", "t", "i", "s", "e", "-", "r", "e", "f", "s">>
ServicePrefix == <<"#", " ", "s", "e", "r", "v", "i", "c", "e", "=">> \o GitDash
Flush == <<"0", "0", "0", "0">>

\* Values of the `service` query parameter: the two of the protocol, an
\* absent one, and another git command.
Services == {GitDash \o UploadPack, GitDash \o ReceivePack, <<>>, GitDash \o <<"g", "c">>}
Bodies == {<<>>, <<"w">>, <<"w", "h">>}          \* request bodies

\* What a subprocess writes, in order: a byte on stdout (1) or stderr (2).
Emits == {[fd |-> 1, b |-> "p"], [fd |-> 1, b |-> "q"], [fd |-> 2, b |-> "e"]}
Scripts == UNION {[1..n -> Emits] : n \in 0..MaxOut}

\* As StdoutOf, had the handler set cmd.Stderr = cmd.Stdout: both streams.
RECURSIVE CombinedOutputOf(_)
CombinedOutputOf(script) ==
    IF script = <<>> THEN <<>> ELSE <<Head(script).b>> \o CombinedOutputOf(Tail(script))

\* The bytes of a script that reach the stdout pipe.  cmd.Stderr is never
\* set, so os/exec connects the child's stderr to the null device.
RECURSIVE StdoutOf(_)
StdoutOf(script) ==
    IF script = <<>> THEN <<>>
    ELSE (IF Head(script).fd = 1 THEN <<Head(script).b>> ELSE <<>>) \o StdoutOf(Tail(script))

HexDigit == <<"0", "1", "2", "3", "4", "5", "6", "7", "8", "9", "a", "b", "c", "d", "e", "f">>

RECURSIVE HexOf(_)
HexOf(n) == IF n < 16 THEN <<HexDigit[n + 1]>> ELSE HexOf(n \div 16) \o <<HexDigit[(n % 16) + 1]>>

RECURSIVE ZeroPad(_, _)
ZeroPad(s, width) == IF Len(s) >= width THEN s ELSE ZeroPad(<<"0">> \o s, width)

\* fmt's %.4x of a non-negative int: lowercase hex, at least 4 digits.
FmtHex4(n) == ZeroPad(HexOf(n), 4)

\* strings.Index: the first position of sub in s, 0 when there is none.
Index(s, sub) ==
    LET hits == {i \in 1..(Len(s) - Len(sub) + 1) : SubSeq(s, i, i + Len(sub) - 1) = sub}
    IN  IF hits = {} THEN 0 ELSE CHOOSE i \in hits : \A j \in hits : i <= j

\* strings.Replace(s, old, new, 1)
Replace1(s, old, new) ==
    LET i == Index(s, old)
    IN  IF i = 0 THEN s
        ELSE SubSeq(s, 1, i - 1) \o new \o SubSeq(s, i + Len(old), Len(s))

\* getInfoRefs, line 451: the git verb taken from the query parameter.
ServiceName(service) == Replace1(service, GitDash, <<>>)

\* As Preamble, with the length not counting the newline (offset 4).
PreambleOffByOne(serviceName) ==
    LET str == ServicePrefix \o serviceName
    IN  FmtHex4(Len(str) + 4) \o str \o <<NL>>

\* getInfoRefs, lines 454-455: fmt.Fprintf(w, "%.4x%s\n", len(str)+offset, str)
Preamble(serviceName) ==
    LET str == ServicePrefix \o serviceName
    IN  FmtHex4(Len(str) + offset) \o str \o <<NL>>

\* GitCommand.args of the three endpoints.
InfoRefsArgs(serviceName, repoPath) == <<serviceName, StatelessRpc, AdvertiseRefs, repoPath>>
PackArgs(verb, repoPath) == <<verb, StatelessRpc, repoPath>>

NoInput == [nil |-> TRUE, data |-> <<>>]          \* GitCommand.procInput == nil

NewReq ==
    [pc |-> "idle", endpoint |-> "", repo |-> <<>>, service |-> <<>>, body |-> <<>>,
     connected |-> TRUE, werr |-> FALSE,
     headerSent |-> FALSE, status |-> 0, page |-> "", pageStatus |-> 0, out |-> <<>>,
     args |-> <<>>, procInput |-> NoInput, stdin |-> NoInput,
     proc |-> "none", script |-> <<>>, pos |-> 0, fail |-> "none"]

\* http.ResponseWriter.WriteHeader: the first call decides the status.
WriteHeader(q, code) ==
    IF q.headerSent THEN q ELSE [q EXCEPT !.headerSent = TRUE, !.status = code]

\* http.ResponseWriter.Write of bytes b.  The first Write sends the header
\* with status 200.  Once the client is gone a Write either still lands in
\* the response's buffer or returns an error (lost = TRUE); after an error
\* every later Write fails.
WriteOk(q, lost) == ~q.werr /\ (q.connected \/ ~lost)
Write(q, b, lost) ==
    IF WriteOk(q, lost) THEN [WriteHeader(q, 200) EXCEPT !.out = @ \o b]
    ELSE [WriteHeader(q, 200) EXCEPT !.werr = TRUE]

\* Smithy.Render(w, "error", H{"Status": 404, ...}) of the browse views.
RenderNotFound(q) == [Write(q, <<>>, FALSE) EXCEPT !.page = "error", !.pageStatus = 404]

BrowseViews == {"RepoView", "RefsView", "TreeView", "LogView", "CommitView", "PatchView"}
PackEndpoints == {"upload-pack", "receive-pack"}
Endpoints == BrowseViews \cup PackEndpoints \cup {"info/refs"}

Set(q) == req' = q
\* What no handler of the bridge touches.
bridgeFrame ==
    <<disk, repos, reload, pre, obs, overlap, refsRepo, refsCall, commit, diffOut, view>>

\* net/http routes a request to its handler (the next one once the last
\* has been served).
Arrive ==
    /\ alive
    /\ req.pc \in {"idle", "done"}
    /\ \E e \in Endpoints, slug \in BridgeSlugs :
          Set([NewReq EXCEPT !.pc = "handler", !.endpoint = e, !.repo = slug])
    /\ UNCHANGED <<alive, sib, bridgeFrame>>

\* Another request of the same process begins (any handler, say IndexView)
\* and, while the process runs, is served to its end.
SiblingStart(s) ==
    /\ alive
    /\ sib[s] \in {"idle", "done"}
    /\ sib' = [sib EXCEPT ![s] = "running"]
    /\ UNCHANGED <<alive, req, bridgeFrame>>

SiblingFinish(s) ==
    /\ alive
    /\ sib[s] = "running"
    /\ sib' = [sib EXCEPT ![s] = "done"]
    /\ UNCHANGED <<alive, req, bridgeFrame>>

\* The client goes away while its request is being served.
ClientDisconnect ==
    /\ alive
    /\ req.pc \notin {"idle", "done", "fatal"}
    /\ req.connected
    /\ Set([req EXCEPT !.connected = FALSE])
    /\ UNCHANGED <<alive, sib, bridgeFrame>>

\* repo, _ := sc.FindRepo(repoName); repoPath := repo.Path + ""
\* (getInfoRefs 446-448, uploadPack 464-466, receivePack 483-485): the
\* second result is dropped, an unknown name gives the zero value's Path.
RepoPathOf(slug) == FindRepoIn(repos.m, slug).value.Path

\* log.Fatal after w.WriteHeader(404): the status is set on the response
\* and os.Exit(1) ends the serving process with every request in it.
Fatal(q, why) ==
    /\ Set([WriteHeader(q, 404) EXCEPT !.pc = "fatal", !.fail = why])
    /\ alive' = FALSE

\* log.Fatal of WriteGitToHttp line 371: no status is set.
FatalNoStatus(q, why) ==
    /\ Set([q EXCEPT !.pc = "fatal", !.fail = why])
    /\ alive' = FALSE

\* The first lines of RepoView, RefsView, TreeView, LogView, CommitView and
\* PatchView: FindRepo, and the error page with Status 404 when it fails.
ViewLookup ==
    /\ alive
    /\ req.pc = "handler"
    /\ req.endpoint \in BrowseViews
    /\ IF FindRepoIn(repos.m, req.repo).exists
       THEN Set([req EXCEPT !.pc = "done", !.page = "found"])
       ELSE Set([RenderNotFound(req) EXCEPT !.pc = "done"])
    /\ UNCHANGED <<alive, sib, bridgeFrame>>

\* getInfoRefs, lines 446-455: the service name and the preamble.
InfoRefsPreamble ==
    /\ alive
    /\ req.pc = "handler"
    /\ req.endpoint = "info/refs"
    /\ \E service \in Services, lost \in BOOLEAN :
          Set([Write(req, Preamble(ServiceName(service)), lost)
                      EXCEPT !.pc = "flush", !.service = service])
    /\ UNCHANGED <<alive, sib, bridgeFrame>>

\* As InfoRefsFlush, with the flush packet forgotten.
InfoRefsNoFlush ==
    /\ alive
    /\ req.pc = "flush"
    /\ Set([req EXCEPT !.pc = "pipe",
                       !.args = InfoRefsArgs(ServiceName(req.service), RepoPathOf(req.repo)),
                       !.procInput = NoInput])
    /\ UNCHANGED <<alive, sib, bridgeFrame>>

\* getInfoRefs, lines 456-459: the flush packet and the GitCommand.
InfoRefsFlush ==
    /\ alive
    /\ req.pc = "flush"
    /\ \E lost \in BOOLEAN :
          Set([Write(req, Flush, lost)
                      EXCEPT !.pc = "pipe",
                             !.args = InfoRefsArgs(ServiceName(req.service),
                                                   RepoPathOf(req.repo)),
                             !.procInput = NoInput])
    /\ UNCHANGED <<alive, sib, bridgeFrame>>

\* uploadPack 464-478 and receivePack 483-497: io.ReadAll(r.Body), then the
\* GitCommand; a failed read sets 404 and calls log.Fatal.
PackRead ==
    /\ alive
    /\ req.pc = "handler"
    /\ req.endpoint \in PackEndpoints
    /\ \E body \in Bodies :
          \/ /\ Set([req EXCEPT
                          !.pc = "pipe", !.body = body,
                          !.procInput = [nil |-> FALSE, data |-> body],
                          !.args = PackArgs(IF req.endpoint = "upload-pack"
                                            THEN UploadPack ELSE ReceivePack,
                                            RepoPathOf(req.repo))])
             /\ UNCHANGED alive
          \/ Fatal([req EXCEPT !.body = body], "read")
    /\ UNCHANGED <<sib, bridgeFrame>>

\* WriteGitToHttp, lines 350-357: exec.Command and cmd.StdoutPipe.
StdoutPipe ==
    /\ alive
    /\ req.pc = "pipe"
    /\ \/ Set([req EXCEPT !.pc = "start"]) /\ UNCHANGED alive
       \/ Fatal(req, "pipe")
    /\ UNCHANGED <<sib, bridgeFrame>>

\* WriteGitToHttp, lines 359-367: cmd.Stdin and cmd.Start.  A started
\* subprocess writes some script of stdout and stderr bytes.
CmdStart ==
    /\ alive
    /\ req.pc = "start"
    /\ \/ /\ \E script \in Scripts :
                Set([req EXCEPT !.pc = "copy", !.proc = "running",
                                      !.stdin = req.procInput,
                                      !.script = script, !.pos = 1])
          /\ UNCHANGED alive
       \/ Fatal(req, "start")
    /\ UNCHANGED <<sib, bridgeFrame>>

\* WriteGitToHttp, lines 369-374: one round of io.Copy(w, stdout), or its
\* end.  A failed Write ends io.Copy with an error and log.Fatal follows; at
\* end of file the handler returns and cmd.Wait is never called, so the
\* subprocess that has exited stays unreaped.
CopyStep ==
    /\ alive
    /\ req.pc = "copy"
    /\ LET stdout == StdoutOf(req.script) IN
       IF req.pos <= Len(stdout)
       THEN \E lost \in BOOLEAN :
               IF WriteOk(req, lost)
               THEN /\ Set([Write(req, <<stdout[req.pos]>>, lost)
                                  EXCEPT !.pos = @ + 1])
                    /\ UNCHANGED alive
               ELSE FatalNoStatus(Write(req, <<stdout[req.pos]>>, lost), "write")
       ELSE /\ Set([req EXCEPT !.pc = "done", !.proc = "exited"])
            /\ UNCHANGED alive
    /\ UNCHANGED <<sib, bridgeFrame>>

Next ==
    \/ Arrive
    \/ ClientDisconnect
    \/ ViewLookup
    \/ InfoRefsPreamble
    \/ InfoRefsFlush
    \/ PackRead
    \/ StdoutPipe
    \/ CmdStart
    \/ CopyStep
    \/ \E s \in Siblings : SiblingStart(s) \/ SiblingFinish(s)

----------------------------------------------------------------------------
(* Reference listing and the default branch *)

RefsHeads == <<"r", "e", "f", "s", "/", "h", "e", "a", "d", "s", "/">>
RefsTags == <<"r", "e", "f", "s", "/", "t", "a", "g", "s", "/">>
Main == <<"m", "a", "i", "n">>
Master == <<"m", "a", "s", "t", "e", "r">>

\* Short names of the branches and tags a repository may hold.
BranchNames == {<<"a", "l", "p", "h", "a">>, <<"d", "e", "v">>, Main, Master, <<"z", "e", "t", "a">>}
TagNames == {<<"v", "1">>, <<"v", "2">>}

\* A *plumbing.Reference: its full name (the target hash plays no part).
Branch(short) == [Name |-> RefsHeads \o short]
Tag(short) == [Name |-> RefsTags \o short]

\* ReferenceName.Short: the name without its refs/heads/ or refs/tags/.
Short(name) ==
    IF HasPrefix(name, RefsHeads) THEN SubSeq(name, Len(RefsHeads) + 1, Len(name))
    ELSE IF HasPrefix(name, RefsTags) THEN SubSeq(name, Len(RefsTags) + 1, Len(name))
    ELSE name

\* The sequences without repetition of at most n elements of S: the orders
\* in which a store may hand out its references.
RECURSIVE Orders(_, _)
Orders(S, n) ==
    IF n = 0 THEN {<<>>}
    ELSE {<<>>} \cup {s \in {<<x>> \o t : x \in S, t \in Orders(S, n - 1)} :
                          \A i \in 2..Len(s) : s[i] # s[1]}

\* A storer.ReferenceIter as ReferenceCollector meets it: the references in
\* the store's order, and how the enumeration goes: "none" (to io.EOF),
\* "open" (r.Branches() / r.Tags() fails) or "next" (it.Next() fails after
\* `at` references).
Iters(S, n) ==
    {[refs |-> o, fail |-> f, at |-> 0] : o \in Orders(S, n), f \in {"none", "open"}}
        \cup {i \in [refs : Orders(S, n), fail : {"next"}, at : 0..n] : i.at <= Len(i.refs)}

\* Less of ReferenceByName:
\* strings.Compare(r[i].Name().String(), r[j].Name().String()) < 0.
ReferenceByNameLess(x, y) == Compare(x.Name, y.Name) < 0

\* sort.Sort(ReferenceByName(refs))
RECURSIVE SortReferenceByName(_)
SortReferenceByName(s) ==
    IF s = <<>> THEN <<>>
    ELSE LET rest == SortReferenceByName(Tail(s))
             x == Head(s)
             k == Cardinality({i \in 1..Len(rest) : ReferenceByNameLess(rest[i], x)})
         IN  SubSeq(rest, 1, k) \o <<x>> \o SubSeq(rest, k + 1, Len(rest))

\* ReferenceCollector, lines 134-152, after n calls of it.Next() that gave
\* a reference: an error returns what was collected as it is, io.EOF ends
\* the loop and the sorted slice is returned.
RECURSIVE ReferenceCollector(_, _, _)
ReferenceCollector(it, n, refs) ==
    IF it.fail = "next" /\ n = it.at THEN [refs |-> refs, err |-> "next"]
    ELSE IF n = Len(it.refs) THEN [refs |-> SortReferenceByName(refs), err |-> "nil"]
    ELSE ReferenceCollector(it, n + 1, Append(refs, it.refs[n + 1]))

\* ListBranches, lines 154-160, and ListTags, lines 162-168.
ListBranches(it) ==
    IF it.fail = "open" THEN [refs |-> <<>>, err |-> "open"]
    ELSE ReferenceCollector(it, 0, <<>>)

ListTags(it) ==
    IF it.fail = "open" THEN [refs |-> <<>>, err |-> "open"]
    ELSE ReferenceCollector(it, 0, <<>>)

\* repo.ResolveRevision(plumbing.Revision(branch)) for a branch short name.
ResolveRevision(it, branch) ==
    IF \E i \in 1..Len(it.refs) : it.refs[i] = Branch(branch) THEN "nil" ELSE "reference not found"

\* The loop of findMainBranch, lines 220-226: the first branch, in slice
\* order, whose short name is main or master; "" when there is none.
RECURSIVE FirstMainOrMaster(_)
FirstMainOrMaster(branches) ==
    IF branches = <<>> THEN <<>>
    ELSE IF Short(Head(branches).Name) = Main \/ Short(Head(branches).Name) = Master
         THEN Short(Head(branches).Name)
         ELSE FirstMainOrMaster(Tail(branches))

\* findMainBranch, lines 213-232; the error of ListBranches is dropped.
findMainBranch(it) ==
    LET branches == ListBranches(it).refs IN
    IF Len(branches) = 0 THEN [branch |-> <<>>, err |-> "no branches found"]
    ELSE LET found == FirstMainOrMaster(branches)
             branch == IF found = <<>> THEN Short(branches[1].Name) ELSE found
         IN  [branch |-> branch, err |-> ResolveRevision(it, branch)]

RefsInit ==
    /\ refsRepo \in [branches : Iters({Branch(b) : b \in BranchNames}, MaxBranches),
                     tags : Iters({Tag(t) : t \in TagNames}, MaxTags)]
    /\ refsCall = [fn |-> "none"]

refsFrame ==
    <<alive, disk, repos, reload, pre, obs, overlap, req, sib, refsRepo, commit, diffOut, view>>

CallListBranches ==
    /\ refsCall' = [fn |-> "ListBranches", out |-> ListBranches(refsRepo.branches)]
    /\ UNCHANGED refsFrame

CallListTags ==
    /\ refsCall' = [fn |-> "ListTags", out |-> ListTags(refsRepo.tags)]
    /\ UNCHANGED refsFrame

CallFindMainBranch ==
    /\ refsCall' = [fn |-> "findMainBranch", out |-> findMainBranch(refsRepo.branches)]
    /\ UNCHANGED refsFrame

RefsNext == CallListBranches \/ CallListTags \/ CallFindMainBranch

----------------------------------------------------------------------------
(* The first-parent diff of a commit *)

AllPaths == <<"a", "d/b", "d/c", "e">>
Paths == {AllPaths[i] : i \in 1..NumPaths}
Blobs == {1, 2}                                   \* content hashes

\* A tree, flattened: the blob at each path it holds.
Trees == UNION {[P -> Blobs] : P \in SUBSET Paths}
NilTree == [p \in {} |-> 1]                        \* a nil *object.Tree: no entry

\* A commit as GetChanges meets it: parent is "none" (no parent hash),
\* "ok" (commit.Parent(0) loads it) or "unloadable" (the hash is there, the
\* object cannot be loaded, as in a shallow or damaged repository);
\* parentTreeOk and treeOk say whether Tree() succeeds.
Commits ==
    [parent : {"none", "ok", "unloadable"}, parentTreeOk : BOOLEAN, parentTree : Trees,
     treeOk : BOOLEAN, tree : Trees]

\* One side of a Change: the entry's path and blob, or the empty entry.
EmptyEntry == [Name |-> "", Hash |-> 0]
Entry(t, p) == IF p \in DOMAIN t THEN [Name |-> p, Hash |-> t[p]] ELSE EmptyEntry

\* object.DiffTree(a, b): one Change for every path whose blob differs or
\* that only one side holds; a nil tree holds nothing.
DiffTree(a, b) ==
    {[From |-> Entry(a, p), To |-> Entry(b, p)] :
        p \in {x \in DOMAIN a \cup DOMAIN b : Entry(a, x) # Entry(b, x)}}

\* GetChanges, lines 234-253.  Any error of commit.Parent(0) leaves
\* parentTree nil.
GetChanges(c) ==
    LET parentErr == c.parent # "ok" IN
    IF ~parentErr /\ ~c.parentTreeOk THEN [changes |-> {}, err |-> "parent tree"]
    ELSE IF ~c.treeOk THEN [changes |-> {}, err |-> "tree"]
    ELSE [changes |-> DiffTree(IF parentErr THEN NilTree ELSE c.parentTree, c.tree),
          err |-> "nil"]

DiffInit ==
    /\ commit \in Commits
    /\ diffOut = [changes |-> {}, err |-> "not called"]

diffFrame ==
    <<alive, disk, repos, reload, pre, obs, overlap, req, sib, refsRepo, refsCall, commit, view>>

CallGetChanges ==
    /\ diffOut' = GetChanges(commit)
    /\ UNCHANGED diffFrame

DiffNext == CallGetChanges

----------------------------------------------------------------------------
(* The browse views: PatchView, LogView, RepoView, RefsView, TreeView *)

PAGE_SIZE == 500                      \* smithy.go:32

\* What a handler left on its http.ResponseWriter.  No view calls
\* WriteHeader, so whatever is written goes out with status 200.  `data` is
\* what the page was rendered from (Body: bytes written without a template).
\* `cause` records the failure the handler had met when it answered ("none"
\* when it had met none).

\* sc.Render(w, name, data): the template name.html executed on data;
\* Status is data["Status"], 0 when the key is absent.
Render(name, status, data, cause) ==
    [panic |-> FALSE, code |-> 200, page |-> name, Status |-> status, data |-> data,
     cause |-> cause]

\* fmt.Fprintf(w, ...) of a handler that renders no template.
Fprintf(body, cause) ==
    [panic |-> FALSE, code |-> 200, page |-> "", Status |-> 0, data |-> [Body |-> body],
     cause |-> cause]

\* A run-time panic in the handler's goroutine: net/http recovers it, logs
\* it and closes the connection; the handler has written nothing.
Panicked(cause) ==
    [panic |-> TRUE, code |-> 0, page |-> "", Status |-> 0, data |-> [Body |-> <<>>],
     cause |-> cause]

\* sc.Error(w, err), part_000 lines 50-54: err.Error() is evaluated first,
\* a nil pointer dereference when err is nil.
Error(err, cause) ==
    IF err = "nil" THEN Panicked(cause)
    ELSE Render("error", 0, [Error |-> err], cause)

\* sc.Render(w, "error", H{"Status": 404, "Error": msg})
NotFound(msg, cause) == Render("error", 404, [Error |-> msg], cause)

\* The repositories a view is asked for, as the reference store shows them.
MainDev == {Branch(Main), Branch(<<"d", "e", "v">>)}
ViewBranchIters == Iters(MainDev, MaxViewRefs)
ViewTagIters == Iters({Tag(<<"v", "1">>)}, MaxViewRefs)

\* ---- PatchView ----

\* Texts of the patch are sequences of pieces (a field's value, or a
\* literal piece of a format string).
Hashes == {"1f3a", "9c2e"}
Signatures == {[Name |-> "ann", Email |-> "ann@x.org"], [Name |-> "bob", Email |-> "bob@y.org"]}
\* A time.Time, broken down as Format prints it.
Times ==
    {[wd |-> "Tue", day |-> "3", mon |-> "Feb", year |-> "2026", clock |-> "04:05:06",
      zone |-> "+0100"],
     [wd |-> "Fri", day |-> "14", mon |-> "Nov", year |-> "2025", clock |-> "23:00:59",
      zone |-> "-0700"]}
Messages == {"fix the parser\n", "add tests\n\nmore text\n"}
StatTexts == {<<>>, <<" a.go | 2 +-\n">>}
PatchTexts == {<<"diff --git a/a.go b/a.go\n">>, <<"diff --git a/a.go b/a.go\n", "@@ -1 +1 @@\n">>}

\* An *object.Commit as PatchView reads it.  The committer's time is not
\* the author's.
PatchCommits ==
    {c \in [Hash : Hashes, Author : Signatures, When : Times, CommitterWhen : Times,
            Message : Messages] : c.CommitterWhen # c.When}

\* t.Format("Mon, 2 Jan 2006 15:04:05 -0700")
FormatDate(t) == <<t.wd, ", ", t.day, " ", t.mon, " ", t.year, " ", t.clock, " ", t.zone>>

\* As PatchEnvelope, with the committer's time in the Date header.
PatchEnvelopeCommitterDate(c, stats, patch) ==
    <<"From ", c.Hash, " Mon Sep 17 00:00:00 2001">> \o <<NL>>
        \o <<"From: ", c.Author.Name, " <", c.Author.Email, ">">> \o <<NL>>
        \o (<<"Date: ">> \o FormatDate(c.CommitterWhen)) \o <<NL>>
        \o <<"Subject: [PATCH] ", c.Message>> \o <<NL, "---", NL>>
        \o stats \o <<NL>> \o patch

\* PatchView, smithy.go lines 335-346: the four header lines and
\* fmt.Fprintf(w, "%s\n%s\n%s\n%s\n---\n%s\n%s", commitHashStr, from, date,
\*             subject, stats.String(), patch)
PatchEnvelope(c, stats, patch) ==
    LET commitHashStr == <<"From ", c.Hash, " Mon Sep 17 00:00:00 2001">>
        from == <<"From: ", c.Author.Name, " <", c.Author.Email, ">">>
        date == <<"Date: ">> \o FormatDate(c.When)
        subject == <<"Subject: [PATCH] ", c.Message>>
    IN  commitHashStr \o <<NL>> \o from \o <<NL>> \o date \o <<NL>> \o subject
            \o <<NL, "---", NL>> \o stats \o <<NL>> \o patch

PatchInputs ==
    [repo : BridgeSlugs, commitID : {"", "1f3a"}, commitOk : BOOLEAN, commit : PatchCommits,
     numParents : 0..2, parentOk : BOOLEAN, patchOk : BOOLEAN, patch : PatchTexts,
     statsOk : BOOLEAN, stats : StatTexts]

\* PatchView, smithy.go lines 280-347.  At line 313 err is the nil error of
\* the CommitObject call that succeeded.
PatchView(in) ==
    IF ~FindRepoIn(repos.m, in.repo).exists THEN NotFound("Repository not found", "repo")
    ELSE IF in.commitID = "" THEN NotFound("Commit not found", "hash")
    ELSE IF ~in.commitOk THEN NotFound("Repository not found", "commit")
    ELSE IF in.numParents = 0 THEN Error("nil", "no parent")
    ELSE IF ~in.parentOk THEN Render("error", 0, [Error |-> "object not found"], "parent")
    ELSE IF ~in.patchOk THEN Render("error", 0, [Error |-> "object not found"], "patch")
    ELSE IF ~in.statsOk THEN Error("object not found", "stats")
    ELSE Fprintf(PatchEnvelope(in.commit, in.stats, in.patch), "none")

\* ---- LogView ----

\* Lengths of the histories LogView is run on: short ones and ones around
\* the page size.
HistoryLens == (0..MaxSpread) \cup ((PAGE_SIZE - MaxSpread)..(PAGE_SIZE + MaxSpread))

\* The log iterator: the i-th Next gives commit i while i <= n, then io.EOF;
\* when errAt = i > 0 the i-th Next gives (nil, err) with another error
\* (a commit of the history whose object is missing).
LogInputs ==
    {in \in [repo : BridgeSlugs, ref : {<<>>, Main}, branches : ViewBranchIters,
             logOk : BOOLEAN, n : HistoryLens, errAt : HistoryLens] : in.errAt <= in.n}

\* LogView, part_000 lines 325-364: what happens before the loop.  Cause
\* "loop" stands for reaching line 366 with an iterator in hand and
\* nothing written yet.
LogViewHead(in) ==
    LET mb == findMainBranch(in.branches) IN
    IF ~FindRepoIn(repos.m, in.repo).exists THEN NotFound("Repository not found", "repo")
    ELSE IF in.ref = <<>> THEN
        IF mb.err # "nil" THEN NotFound("Repository not found", "main branch")
        ELSE [panic |-> FALSE, code |-> 302, page |-> "", Status |-> 0,
              data |-> [Location |-> mb.branch], cause |-> "none"]
    ELSE IF ResolveRevision(in.branches, in.ref) # "nil"
        THEN NotFound("Repository not found", "revision")
    ELSE IF ~in.logOk THEN Error("object not found", "log")
    ELSE [panic |-> FALSE, code |-> 0, page |-> "", Status |-> 0, data |-> [Body |-> <<>>],
          cause |-> "loop"]

\* ---- RepoView and RefsView ----

RefsInputs == [repo : BridgeSlugs, branches : ViewBranchIters, tags : ViewTagIters,
               commitOk : BOOLEAN]

\* RepoView, part_000 lines 117-172 (the README never fails the view).
RepoView(in) ==
    LET b == ListBranches(in.branches)
        t == ListTags(in.tags)
        mb == findMainBranch(in.branches)
    IN  IF ~FindRepoIn(repos.m, in.repo).exists THEN NotFound("Repository not found", "repo")
        ELSE IF b.err # "nil" THEN Error(b.err, "branches")
        ELSE IF t.err # "nil" THEN Error(t.err, "tags")
        ELSE IF mb.err # "nil" THEN Error(mb.err, "main branch")
        ELSE IF ~in.commitOk THEN Error("object not found", "commit")
        ELSE Render("repo", 0, [Branches |-> b.refs, Tags |-> t.refs], "none")

\* RefsView, part_000 lines 174-200.
RefsView(in) ==
    LET b == ListBranches(in.branches)
        t == ListTags(in.tags)
        branches == IF b.err # "nil" THEN <<>> ELSE b.refs
        tags == IF t.err # "nil" THEN <<>> ELSE t.refs
    IN  IF ~FindRepoIn(repos.m, in.repo).exists THEN NotFound("Repository not found", "repo")
        ELSE Render("refs", 0, [Branches |-> branches, Tags |-> tags],
                    IF b.err # "nil" THEN "branches"
                    ELSE IF t.err # "nil" THEN "tags" ELSE "none")

\* ---- TreeView ----

\* strings.Split(s, "/")
RECURSIVE Split(_)
Split(s) ==
    LET i == Index(s, <<"/">>) IN
    IF i = 0 THEN <<s>>
    ELSE <<SubSeq(s, 1, i - 1)>> \o Split(SubSeq(s, i + 1, Len(s)))

\* The elements joined by "/".
RECURSIVE JoinSlash(_)
JoinSlash(segs) ==
    IF segs = <<>> THEN <<>>
    ELSE IF Len(segs) = 1 THEN segs[1]
    ELSE segs[1] \o <<"/">> \o JoinSlash(Tail(segs))

\* filepath.Clean's pass over the elements: empty ones and "." dropped,
\* ".." removing the element before it (dropped at the root, kept at the
\* start of a relative path).
RECURSIVE CleanSegs(_, _, _)
CleanSegs(segs, acc, rooted) ==
    IF segs = <<>> THEN acc
    ELSE LET s == Head(segs) IN
         IF s = <<>> \/ s = <<".">> THEN CleanSegs(Tail(segs), acc, rooted)
         ELSE IF s = <<".", ".">>
              THEN IF acc # <<>> /\ acc[Len(acc)] # <<".", ".">>
                   THEN CleanSegs(Tail(segs), SubSeq(acc, 1, Len(acc) - 1), rooted)
                   ELSE IF rooted THEN CleanSegs(Tail(segs), acc, rooted)
                   ELSE CleanSegs(Tail(segs), Append(acc, s), rooted)
              ELSE CleanSegs(Tail(segs), Append(acc, s), rooted)

\* filepath.Clean (Unix): the shortest equivalent path; "." for an empty one.
Clean(path) ==
    LET rooted == path # <<>> /\ path[1] = "/"
        out == (IF rooted THEN <<"/">> ELSE <<>>) \o JoinSlash(CleanSegs(Split(path), <<>>, rooted))
    IN  IF out = <<>> THEN <<".">> ELSE out

\* filepath.Dir (Unix): Clean of the path up to and with its last separator.
Dir(path) ==
    LET slashes == {i \in 1..Len(path) : path[i] = "/"}
        last == IF slashes = {} THEN 0 ELSE CHOOSE i \in slashes : \A j \in slashes : j <= i
    IN  Clean(SubSeq(path, 1, last))

\* The `path` parameter: up to MaxDepth elements joined by "/".
RECURSIVE SegSeqs(_)
SegSeqs(n) ==
    IF n = 0 THEN {<<>>}
    ELSE SegSeqs(n - 1) \cup {Append(s, x) : s \in {t \in SegSeqs(n - 1) : Len(t) = n - 1},
                                              x \in {<<"a">>, <<"b">>}}
TreePaths == {JoinSlash(s) : s \in SegSeqs(MaxDepth)}

TreeInputs ==
    [repo : BridgeSlugs, ref : {<<>>, Main, <<"x">>}, branches : ViewBranchIters,
     path : TreePaths, commitOk : BOOLEAN, treeOk : BOOLEAN,
     entry : {"missing", "dir", "file"}, subTreeOk : BOOLEAN, fileOk : BOOLEAN,
     contentsOk : BOOLEAN]

\* TreeView, part_000 lines 202-323.
TreeView(in) ==
    LET mb == findMainBranch(in.branches)
        refNameString == IF in.ref = <<>> THEN mb.branch ELSE in.ref
        treePath == in.path
        parentPath == Dir(treePath)
    IN  IF ~FindRepoIn(repos.m, in.repo).exists THEN NotFound("Repository not found", "repo")
        ELSE IF in.ref = <<>> /\ mb.err # "nil"
            THEN NotFound("Repository not found", "main branch")
        ELSE IF ResolveRevision(in.branches, refNameString) # "nil"
            THEN NotFound("Repository not found", "revision")
        ELSE IF ~in.commitOk THEN NotFound("Repository not found", "commit")
        ELSE IF ~in.treeOk THEN NotFound("Repository not found", "tree")
        ELSE IF treePath = <<>>
            THEN Render("tree", 0, [RefName |-> refNameString, Path |-> treePath], "none")
        ELSE IF in.entry = "missing" THEN NotFound("Repository not found", "entry")
        ELSE IF in.entry = "dir"
            THEN IF ~in.subTreeOk THEN NotFound("Repository not found", "subtree")
                 ELSE Render("tree", 0, [ParentPath |-> parentPath, RefName |-> refNameString,
                                         Path |-> treePath], "none")
        ELSE IF ~in.fileOk THEN NotFound("Repository not found", "file")
        ELSE IF ~in.contentsOk THEN NotFound("Repository not found", "contents")
        ELSE Render("blob", 0, [ParentPath |-> parentPath, RefName |-> refNameString,
                                Path |-> treePath], "none")

\* ---- one request to a view, from its arrival to its response ----

viewFrame == <<alive, disk, repos, reload, pre, obs, overlap, req, sib,
               refsRepo, refsCall, commit, diffOut>>

CallPatchView ==
    /\ view.fn = "none"
    /\ \E in \in PatchInputs :
          view' = [fn |-> "PatchView", in |-> in, pc |-> "done", out |-> PatchView(in)]
    /\ UNCHANGED viewFrame

\* LogView up to its loop.
CallLogView ==
    /\ view.fn = "none"
    /\ \E in \in LogInputs :
          view' = IF LogViewHead(in).cause = "loop"
                  THEN [fn |-> "LogView", in |-> in, pc |-> "loop",
                        out |-> [i |-> 1, commits |-> <<>>]]
                  ELSE [fn |-> "LogView", in |-> in, pc |-> "done", out |-> LogViewHead(in)]
    /\ UNCHANGED viewFrame

\* LogView, part_000 lines 366-387: the loop test and one iteration, or the
\* page rendered after the loop.  Only io.EOF is tested: after another error
\* commit is nil and commit.Message is a nil pointer dereference.
LogIterate ==
    /\ view.pc = "loop"
    /\ LET in == view.in
           i == view.out.i
           commits == view.out.commits
           log == Render("log", 0, [RefName |-> in.ref, Commits |-> commits], "none")
       IN  view' =
              IF i > PAGE_SIZE THEN [view EXCEPT !.pc = "done", !.out = log]
              ELSE IF in.errAt = i THEN [view EXCEPT !.pc = "done", !.out = Panicked("next")]
              ELSE IF i > in.n THEN [view EXCEPT !.pc = "done", !.out = log]
              ELSE [view EXCEPT !.out = [i |-> i + 1, commits |-> Append(commits, i)]]
    /\ UNCHANGED viewFrame

CallRepoView ==
    /\ view.fn = "none"
    /\ \E in \in RefsInputs :
          view' = [fn |-> "RepoView", in |-> in, pc |-> "done", out |-> RepoView(in)]
    /\ UNCHANGED viewFrame

CallRefsView ==
    /\ view.fn = "none"
    /\ \E in \in RefsInputs :
          view' = [fn |-> "RefsView", in |-> in, pc |-> "done", out |-> RefsView(in)]
    /\ UNCHANGED viewFrame

CallTreeView ==
    /\ view.fn = "none"
    /\ \E in \in TreeInputs :
          view' = [fn |-> "TreeView", in |-> in, pc |-> "done", out |-> TreeView(in)]
    /\ UNCHANGED viewFrame

ViewsNext ==
    CallPatchView \/ CallLogView \/ LogIterate \/ CallRepoView \/ CallRefsView \/ CallTreeView

----------------------------------------------------------------------------
(* Specifications *)

\* The registry after a LoadAllRepositories over a root that holds Dirs.
Loaded == [nil |-> FALSE, m |-> [n \in Dirs |-> RepositoryWithName(n)]]

\* Each specification runs one component and holds the others still.
RegistryLoaded ==
    /\ alive = TRUE
    /\ disk = [d \in Dirs |-> "repo"]
    /\ repos = Loaded
    /\ reload = [p \in Reloaders |-> Idle]
    /\ pre = EmptyMap
    /\ obs = {}
    /\ overlap = FALSE

NoRequests == req = NewReq /\ sib = [s \in Siblings |-> "idle"]

NoRefsCall ==
    /\ refsRepo = [branches |-> [refs |-> <<>>, fail |-> "none", at |-> 0],
                   tags |-> [refs |-> <<>>, fail |-> "none", at |-> 0]]
    /\ refsCall = [fn |-> "none"]

NoDiffCall ==
    /\ commit = [parent |-> "none", parentTreeOk |-> TRUE, parentTree |-> NilTree,
                 treeOk |-> TRUE, tree |-> NilTree]
    /\ diffOut = [changes |-> {}, err |-> "not called"]

NoViewCall == view = [fn |-> "none", pc |-> "done"]

\* The bridge and the browse views' lookup, over a loaded registry.
Init == RegistryLoaded /\ NoRequests /\ NoRefsCall /\ NoDiffCall /\ NoViewCall

Spec == Init /\ [][Next]_vars

\* The registry: reloads, directory changes and unsynchronised readers.
InitRegistry == RegInit /\ NoRequests /\ NoRefsCall /\ NoDiffCall /\ NoViewCall

SpecRegistry == InitRegistry /\ [][RegNext]_vars

\* Reference listing and default-branch detection, over every repository
\* within the bounds.
InitRefs == RegistryLoaded /\ NoRequests /\ RefsInit /\ NoDiffCall /\ NoViewCall

SpecRefs == InitRefs /\ [][RefsNext]_vars

\* GetChanges, over every commit within the bounds.
InitDiff == RegistryLoaded /\ NoRequests /\ NoRefsCall /\ DiffInit /\ NoViewCall

SpecDiff == InitDiff /\ [][DiffNext]_vars

\* The browse views, over a loaded registry and every input within the bounds.
InitViews == RegistryLoaded /\ NoRequests /\ NoRefsCall /\ NoDiffCall /\ NoViewCall

SpecViews == InitViews /\ [][ViewsNext]_vars

----------------------------------------------------------------------------
(* Claims about the registry *)

\* What the recorded call would have returned on mapping m.
Consistent(o, m) ==
    IF o.op = "FindRepo" THEN o.out = FindRepoIn(m, o.slug)
    ELSE o.out = GetRepositoriesIn(m)

\* C1: with one reload in flight, every concurrent FindRepo / GetRepositories
\* returns what it would return on the complete mapping from before the
\* reload or on the complete mapping the reload produced; never the result
\* of an empty or partly populated mapping.
C1_ReadersSeeOldOrNew ==
    \A p \in Reloaders :
        (alive /\ ~overlap /\ reload[p].pc = "respond")
            => \A o \in obs : Consistent(o, pre) \/ Consistent(o, repos.m)

\* The mapping that holds exactly one handle per name of S, keyed by it.
HandlesOf(S) == [n \in S |-> RepositoryWithName(n)]

\* The entries of the root directory that are valid repositories.
ValidOnDisk(d) == {n \in Dirs : d[n] = "repo"}

\* C14: when LoadAllRepositories returns without error, having opened
\* exactly the entries of the root that are valid repositories (the others
\* skipped), the registry holds exactly one handle per such entry, keyed by
\* the directory name, and nothing else.
C14_ReloadResultIsTheScan ==
    [][\A p \in Reloaders :
          (/\ reload[p].pc = "loop" /\ reload'[p].pc = "respond"
           /\ reload[p].opened = ValidOnDisk(disk))
              => /\ ~repos'.nil
                 /\ repos'.m = HandlesOf(ValidOnDisk(disk))]_vars

\* C15: the mapping the readers see changes only by a reload's whole-map
\* replacement: no step of AddRepository or of the population loop inserts
\* into it or modifies an entry of it.
C15_OnlyWholeMapReplacement ==
    [][repos'.m # repos.m =>
          \E p \in Reloaders : reload[p].pc = "make" /\ reload'[p].pc = "loop"]_vars

\* C16: at no moment are two requests inside LoadAllRepositories (between
\* its os.ReadDir and its return).
C16_ReloadsDoNotOverlap ==
    Cardinality({p \in Reloaders : reload[p].pc \in {"make", "loop"}}) <= 1

\* C19: the step in which a reload fails on os.ReadDir leaves the registry
\* as it was: the same mapping, and every FindRepo and GetRepositories
\* returns what it returned before.
C19_FailedReloadKeepsRegistry ==
    [][\A p \in Reloaders :
          (reload[p].pc \in {"idle", "scan"} /\ reload'[p].pc = "respond")
              => /\ repos' = repos
                 /\ \A slug \in Slugs :
                       FindRepoIn(repos'.m, slug) = FindRepoIn(repos.m, slug)
                 /\ GetRepositoriesIn(repos'.m) = GetRepositoriesIn(repos.m)]_vars

\* A reload has failed on os.ReadDir over a registry that holds a repository.
C19_Witness ==
    \E p \in Reloaders :
        /\ reload[p].pc = "respond"
        /\ reload[p].i = 0
        /\ ~repos.nil
        /\ DOMAIN repos.m # {}
        /\ ~overlap

----------------------------------------------------------------------------
(* Claims about the Smart HTTP bridge *)

IsPrefix(a, b) == Len(a) <= Len(b) /\ SubSeq(b, 1, Len(a)) = a

\* The bytes a script puts on file descriptor fd, in the order written.
OnFd(script, fd) ==
    LET idx == {i \in 1..Len(script) : script[i].fd = fd}
        nth(k) == CHOOSE i \in idx : Cardinality({j \in idx : j < i}) = k - 1
    IN  [k \in 1..Cardinality(idx) |-> script[nth(k)].b]

\* The value of a string of lowercase hex digits, -1 when a character is
\* not one.
HexValue(s) ==
    LET digit(c) == IF \E i \in 1..16 : HexDigit[i] = c
                    THEN (CHOOSE i \in 1..16 : HexDigit[i] = c) - 1 ELSE -1
        RECURSIVE val(_)
        val(t) == IF t = <<>> THEN 0
                  ELSE IF digit(t[Len(t)]) < 0 \/ val(SubSeq(t, 1, Len(t) - 1)) < 0 THEN -1
                  ELSE 16 * val(SubSeq(t, 1, Len(t) - 1)) + digit(t[Len(t)])
    IN  val(s)

\* C2: when the stdout pipe cannot be opened or the subprocess does not
\* start, the request gets an error status and the serving process keeps
\* running (so the other requests complete and later ones are served).
C2_StartFailureKeepsServing ==
    req.fail \in {"pipe", "start"} => (req.status >= 400 /\ alive)

\* C3: when a Write to the response fails during the relay (the client
\* has disconnected), the copying has stopped, the request is over with its
\* subprocess terminated and reaped, not left running or un-waited, and
\* the serving process continues.
C3_DisconnectReapsSubprocess ==
    req.fail = "write" =>
        /\ req.pc # "copy"
        /\ req.proc = "reaped"
        /\ alive

\* C4: the body of an info/refs response is at every moment a prefix of
\* <4 length bytes> "# service=git-<verb>" "\n" "0000" <subprocess stdout>,
\* the subprocess being git <verb> --stateless-rpc --advertise-refs <path>;
\* and it is all of it when the relay ends with no Write lost.
C4_InfoRefsBodyOrder ==
    req.endpoint = "info/refs" =>
        LET verb == ServiceName(req.service)
            len4 == SubSeq(req.out, 1, IF Len(req.out) < 4 THEN Len(req.out) ELSE 4)
            whole == len4 \o ServicePrefix \o verb \o <<NL>> \o Flush
                        \o OnFd(req.script, 1)
        IN  /\ IsPrefix(req.out, whole)
            /\ req.out # <<>> => Len(len4) = 4
            /\ req.proc # "none" =>
                  req.args = <<verb, StatelessRpc, AdvertiseRefs, RepoPathOf(req.repo)>>
            /\ (req.pc = "done" /\ ~req.werr) => req.out = whole

C4_Witness ==
    /\ req.endpoint = "info/refs"
    /\ req.pc = "done"
    /\ ~req.werr
    /\ Len(OnFd(req.script, 1)) >= 2
    /\ Len(req.out) > 4 + Len(ServicePrefix) + 1 + 4

\* C5: for service git-upload-pack and git-receive-pack the advertisement
\* starts with 4 lowercase hex digits whose value is L + 4 + 1, L the length
\* of "# service=git-<verb>", which is the length of prefix, line and
\* newline together; the line, a newline and then "0000" follow.
C5_PktLineLength ==
    (/\ req.endpoint = "info/refs"
     /\ req.service \in {GitDash \o UploadPack, GitDash \o ReceivePack}
     /\ req.pc \notin {"idle", "handler"}
     /\ ~req.werr) =>
        LET line == <<"#", " ", "s", "e", "r", "v", "i", "c", "e", "=">> \o req.service
            L == Len(line)
        IN  /\ Len(req.out) >= 4 + L + 1
            /\ HexValue(SubSeq(req.out, 1, 4)) = L + 4 + 1
            /\ SubSeq(req.out, 5, 4 + L) = line
            /\ req.out[4 + L + 1] = NL
            /\ req.pc # "flush" => SubSeq(req.out, 4 + L + 2, 4 + L + 5) = <<"0", "0", "0", "0">>
            /\ req.service = GitDash \o UploadPack =>
                  SubSeq(req.out, 1, 4) = <<"0", "0", "1", "e">>
            /\ req.service = GitDash \o ReceivePack =>
                  SubSeq(req.out, 1, 4) = <<"0", "0", "1", "f">>

C5_Witness ==
    /\ req.endpoint = "info/refs"
    /\ req.service = GitDash \o ReceivePack
    /\ req.pc = "pipe"
    /\ ~req.werr

\* C6: in an upload-pack or receive-pack request the response body is at
\* every moment a prefix of the subprocess's stdout bytes in the order they
\* were written, all of them when the relay ends with no Write lost; no
\* stderr byte is in it; and the subprocess's stdin is the request body.
C6_PackRelayFaithful ==
    req.endpoint \in PackEndpoints =>
        /\ IsPrefix(req.out, OnFd(req.script, 1))
        /\ (req.pc = "done" /\ ~req.werr) => req.out = OnFd(req.script, 1)
        /\ \A i \in 1..Len(req.out), j \in 1..Len(req.script) :
              req.script[j].fd = 2 => req.out[i] # req.script[j].b
        /\ req.proc # "none" => req.stdin = [nil |-> FALSE, data |-> req.body]

C6_Witness ==
    /\ req.endpoint \in PackEndpoints
    /\ req.pc = "done"
    /\ req.body # <<>>
    /\ Len(OnFd(req.script, 2)) >= 1
    /\ req.out = OnFd(req.script, 1)
    /\ Len(req.out) >= 2
    /\ req.out[1] # req.out[2]

\* C7: a request that names a repository the registry does not hold ends
\* as not found (status or error page 404) on every endpoint, and no git
\* command is built or started for it.
C7_UnknownRepoIsNotFound ==
    (req.repo \notin DOMAIN repos.m /\ req.pc \notin {"idle", "handler"}) =>
        /\ req.status = 404 \/ req.pageStatus = 404
        /\ req.args = <<>>
        /\ req.proc = "none"

\* C20: whatever the service query parameter holds, the verb of every git
\* subprocess the bridge starts is upload-pack or receive-pack.
C20_OnlyPackVerbs ==
    req.proc # "none" =>
        /\ req.args # <<>>
        /\ req.args[1] \in {UploadPack, ReceivePack}

\* C21: when the bridge has called WriteHeader with its error status
\* because the stdout pipe or the start of the subprocess failed, no byte of
\* the response body has been written for the request and the error status
\* is the status of the response, on info/refs as on the pack endpoints.
C21_ErrorStatusBeforeBody ==
    (req.pc = "fatal" /\ req.fail \in {"pipe", "start"}) =>
        /\ req.out = <<>>
        /\ req.status = 404

----------------------------------------------------------------------------
(* Claims about the browse views *)

\* C11: PatchView on a commit without parent, or whose parent, diff or
\* stats cannot be computed, completes by rendering the error page: it
\* writes no patch envelope and does not abort without a response.
C11_PatchFailureRendersError ==
    (view.fn = "PatchView" /\ view.out.cause \in {"no parent", "parent", "patch", "stats"})
        => /\ ~view.out.panic
           /\ view.out.page = "error"

\* The first position from `start` on at which sec occurs in body (0: none).
FindFrom(body, sec, start) ==
    LET hits == {i \in start..(Len(body) - Len(sec) + 1) : SubSeq(body, i, i + Len(sec) - 1) = sec}
    IN  IF hits = {} THEN 0 ELSE CHOOSE i \in hits : \A j \in hits : i <= j

\* The sections occur in body one after the other, in the order given.
RECURSIVE InOrderFrom(_, _, _)
InOrderFrom(body, secs, start) ==
    IF secs = <<>> THEN TRUE
    ELSE LET at == FindFrom(body, Head(secs), start) IN
         at # 0 /\ InOrderFrom(body, Tail(secs), at + Len(Head(secs)))

RECURSIVE TotalLen(_)
TotalLen(secs) == IF secs = <<>> THEN 0 ELSE Len(Head(secs)) + TotalLen(Tail(secs))

\* body is the sections in this order, each on lines of its own: it starts
\* with the first, and holds nothing more than the sections and one
\* newline between two of them.
ConsistsOf(body, secs) ==
    /\ InOrderFrom(body, secs, 1)
    /\ FindFrom(body, Head(secs), 1) = 1
    /\ Len(body) = TotalLen(secs) + Len(secs) - 1
    /\ Cardinality({i \in 1..Len(body) : body[i] = NL}) >= Len(secs) - 1

\* The header sections of the envelope of commit c.
MailboxLine(c) == <<"From ", c.Hash, " Mon Sep 17 00:00:00 2001">>
FromHeader(c) == <<"From: ", c.Author.Name, " <", c.Author.Email, ">">>
DateHeader(c) ==
    <<"Date: ", c.When.wd, ", ", c.When.day, " ", c.When.mon, " ", c.When.year, " ",
      c.When.clock, " ", c.When.zone>>
SubjectHeader(c) == <<"Subject: [PATCH] ", c.Message>>
Separator == <<"---">>

\* PatchView has written the envelope of a single-parent commit.
PatchWritten ==
    /\ view.fn = "PatchView"
    /\ view.in.numParents = 1
    /\ view.out.cause = "none"

\* C12 as stated: the envelope of a single-parent commit is the mailbox
\* line, From:, Date: (author time), Subject: [PATCH] <message>, the
\* diffstat, the "---" separator and the unified diff, in this order.
C12_EnvelopeStatBeforeSeparator ==
    PatchWritten =>
        ConsistsOf(view.out.data.Body,
                   <<MailboxLine(view.in.commit), FromHeader(view.in.commit),
                     DateHeader(view.in.commit), SubjectHeader(view.in.commit),
                     view.in.stats, Separator, view.in.patch>>)

\* C12 amended: the envelope of a single-parent commit is the mailbox line,
\* From:, Date: (author time), Subject: [PATCH] <message>, the "---"
\* separator, the diffstat and the unified diff, in this order.
C12_EnvelopeSeparatorBeforeStat ==
    PatchWritten =>
        ConsistsOf(view.out.data.Body,
                   <<MailboxLine(view.in.commit), FromHeader(view.in.commit),
                     DateHeader(view.in.commit), SubjectHeader(view.in.commit),
                     Separator, view.in.stats, view.in.patch>>)

C12_Witness ==
    /\ PatchWritten
    /\ view.in.stats # <<>>
    /\ Len(view.in.patch) >= 2
    /\ FindFrom(view.out.data.Body, Separator, 1) < FindFrom(view.out.data.Body, view.in.stats, 1)

\* C13: LogView, once it iterates the history, never dereferences a missing
\* commit, and on a history of n commits whose iterator gives no error it
\* lists exactly the first min(n, PAGE_SIZE) of them.
C13_LogPageBounded ==
    (view.fn = "LogView" /\ view.pc = "done" /\ LogViewHead(view.in).cause = "loop")
        => /\ ~view.out.panic
           /\ view.out.page = "log"
           /\ Len(view.out.data.Commits) <= 500
           /\ view.in.errAt = 0 =>
                 LET k == IF view.in.n < 500 THEN view.in.n ELSE 500
                 IN  view.out.data.Commits = [j \in 1..k |-> j]

\* A response that tells the caller of a server-side failure.
FiveXX(out) == ~out.panic /\ (out.code \in 500..599 \/ out.Status \in 500..599)

\* C17: RepoView answers a failed enumeration of branches or tags, and
\* TreeView a failed read of a blob, with a 5xx-equivalent status; RefsView
\* answers a failed enumeration with the refs page and an empty list.
C17_EnumerationAndBlobFailures ==
    /\ (view.fn = "RepoView" /\ view.out.cause \in {"branches", "tags"}) => FiveXX(view.out)
    /\ (view.fn = "TreeView" /\ view.out.cause \in {"file", "contents"}) => FiveXX(view.out)
    /\ (view.fn = "RefsView" /\ FindRepoIn(repos.m, view.in.repo).exists) =>
          /\ view.out.page = "refs"
          /\ ListBranches(view.in.branches).err # "nil" => view.out.data.Branches = <<>>
          /\ ListTags(view.in.tags).err # "nil" => view.out.data.Tags = <<>>

\* C18: the parent path TreeView hands to its page for a non-empty path is
\* the path without its last element: a/b for a/b/c, and the empty path ""
\* for a path of one element.
C18_ParentPathDropsLastSegment ==
    (view.fn = "TreeView" /\ view.in.path # <<>> /\ view.out.page \in {"tree", "blob"})
        => LET segs == Split(view.in.path)
           IN  view.out.data.ParentPath = JoinSlash(SubSeq(segs, 1, Len(segs) - 1))


----------------------------------------------------------------------------
(* Claims about references and diffs *)

\* The short names of the branches the repository holds.
BranchSet == {Short(refsRepo.branches.refs[i].Name) : i \in 1..Len(refsRepo.branches.refs)}

\* The smallest string of a non-empty set, in bytewise order.
Smallest(S) == CHOOSE x \in S : \A y \in S : Compare(x, y) <= 0

\* C8: findMainBranch on a repository with branches returns main if there
\* is a branch main, else master if there is a branch master, else the
\* smallest branch name; on a repository without branches it fails with
\* "no branches found".
C8_MainThenMasterThenFirst ==
    refsCall.fn = "findMainBranch" =>
        IF BranchSet = {} THEN refsCall.out.err = "no branches found"
        ELSE /\ refsCall.out.err = "nil"
             /\ refsCall.out.branch =
                   IF Main \in BranchSet THEN Main
                   ELSE IF Master \in BranchSet THEN Master
                   ELSE Smallest(BranchSet)

\* C9: what ListBranches and ListTags return is sorted by full reference
\* name, whatever the order of the iterator and on every return path.
C9_ReferencesSorted ==
    refsCall.fn \in {"ListBranches", "ListTags"} =>
        \A i, j \in 1..Len(refsCall.out.refs) :
            i < j => Compare(refsCall.out.refs[i].Name, refsCall.out.refs[j].Name) < 0

\* C10: GetChanges on a commit without parent does not fail and yields
\* exactly one Change, with an empty From, per blob of the commit's tree;
\* and when the parent exists but it or its tree cannot be loaded,
\* GetChanges returns an error.
C10_RootDiffAndParentErrors ==
    diffOut.err # "not called" =>
        /\ (commit.parent = "none" /\ commit.treeOk) =>
              /\ diffOut.err = "nil"
              /\ diffOut.changes =
                    {[From |-> EmptyEntry, To |-> [Name |-> p, Hash |-> commit.tree[p]]] :
                        p \in DOMAIN commit.tree}
        /\ (commit.parent = "unloadable" \/ (commit.parent = "ok" /\ ~commit.parentTreeOk))
              => diffOut.err # "nil"

====
